---- MODULE Spec2Model ----
(***************************************************************************)
(* Weather dashboard backend: the weather routes, WeatherController and    *)
(* WeatherService of weather_backend_server.ts, as a state machine over    *)
(* concurrent HTTP requests.  Every await of a handler is a point where    *)
(* other requests and the clock may run.                                   *)
(***************************************************************************)
EXTENDS Integers, Sequences, FiniteSets, TLC

(***************************************************************************)
(* Bounds of the model.                                                    *)
(***************************************************************************)
NumReq == 2            \* request slots (requests that may overlap)
MaxTicks == 2          \* clock advances in one behaviour
MaxFetches == 3        \* service calls after which a client stops sending again
NumFavs == 2           \* Favorite documents
MaxSignals == 2        \* SIGTERM / SIGINT deliveries
MaxConns == 3          \* HTTP connections open at a time
MaxOver == 2           \* requests a client sends beyond the rate limit in one window
MaxLoads == 3          \* loadWeatherData calls of one Dashboard
Decimals == 3          \* fraction digits kept of a parsed coordinate (one more than KeyPrecision)

Reqs == 1..NumReq

RECURSIVE Pow10(_)
Pow10(n) == IF n = 0 THEN 1 ELSE 10 * Pow10(n - 1)

Scale == Pow10(Decimals)

(***************************************************************************)
(* Strings are sequences of one-character strings, so that template         *)
(* literals are real concatenations.                                       *)
(***************************************************************************)
Digits == {"0", "1", "2", "3", "4", "5", "6", "7", "8", "9"}

DigitVal(c) ==
  CASE c = "0" -> 0 [] c = "1" -> 1 [] c = "2" -> 2 [] c = "3" -> 3
    [] c = "4" -> 4 [] c = "5" -> 5 [] c = "6" -> 6 [] c = "7" -> 7
    [] c = "8" -> 8 [] c = "9" -> 9

DigitChar(d) ==
  CASE d = 0 -> "0" [] d = 1 -> "1" [] d = 2 -> "2" [] d = 3 -> "3"
    [] d = 4 -> "4" [] d = 5 -> "5" [] d = 6 -> "6" [] d = 7 -> "7"
    [] d = 8 -> "8" [] d = 9 -> "9"

\* A JavaScript number: NaN, or an integer count of units.
NaN == [nan |-> TRUE, v |-> 0]

Num(v) == [nan |-> FALSE, v |-> v]

\* Length of the longest prefix of s made of decimal digits.
RECURSIVE DigitPrefixLen(_)
DigitPrefixLen(s) ==
  IF s = <<>> \/ Head(s) \notin Digits THEN 0 ELSE 1 + DigitPrefixLen(Tail(s))

\* Value of a sequence of decimal digits.
RECURSIVE DigitsVal(_)
DigitsVal(s) ==
  IF s = <<>> THEN 0 ELSE DigitsVal(SubSeq(s, 1, Len(s) - 1)) * 10 + DigitVal(s[Len(s)])

\* Value, in units of 1/Scale, of the fraction digits s (digits beyond
\* Decimals are dropped).
RECURSIVE FracVal(_, _)
FracVal(s, n) ==
  IF n = 0 THEN 0
  ELSE IF s = <<>> THEN 0
  ELSE DigitVal(Head(s)) * Pow10(n - 1) + FracVal(Tail(s), n - 1)

\* validator.js isFloat as used by param('lat').isFloat(): optional sign,
\* digits, optional fraction; '', '.', '-', '+' are rejected.
isFloat(s) ==
  LET body == IF s # <<>> /\ Head(s) \in {"-", "+"} THEN Tail(s) ELSE s
      n    == DigitPrefixLen(body)
      rest == SubSeq(body, n + 1, Len(body))
      frac == IF rest # <<>> /\ Head(rest) = "." THEN Tail(rest) ELSE rest
  IN  /\ s \notin {<<>>, <<".">>, <<"-">>, <<"+">>}
      /\ DigitPrefixLen(frac) = Len(frac)

\* JavaScript parseFloat: the longest prefix that is a decimal literal, NaN
\* when there is none.  The result counts units of 1/Scale.
parseFloat(s) ==
  LET neg  == s # <<>> /\ Head(s) = "-"
      body == IF s # <<>> /\ Head(s) \in {"-", "+"} THEN Tail(s) ELSE s
      n    == DigitPrefixLen(body)
      rest == SubSeq(body, n + 1, Len(body))
      fr   == IF rest # <<>> /\ Head(rest) = "." THEN Tail(rest) ELSE <<>>
      m    == DigitPrefixLen(fr)
      mag  == DigitsVal(SubSeq(body, 1, n)) * Scale + FracVal(SubSeq(fr, 1, m), Decimals)
  IN  IF n = 0 /\ m = 0 THEN NaN
      ELSE IF neg THEN Num(0 - mag) ELSE Num(mag)

\* Decimal digits of a natural number.
RECURSIVE NatToStr(_)
NatToStr(n) ==
  IF n < 10 THEN <<DigitChar(n)>> ELSE NatToStr(n \div 10) \o <<DigitChar(n % 10)>>

\* The n fraction digits of f (f < 10^n), trailing zeros removed.
RECURSIVE FracToStr(_, _)
FracToStr(f, n) ==
  IF f = 0 \/ n = 0 THEN <<>>
  ELSE <<DigitChar(f \div Pow10(n - 1))>> \o FracToStr(f % Pow10(n - 1), n - 1)

\* Number::toString as used by `${latitude}` in a template literal.
NumToStr(x) ==
  IF x.nan THEN <<"N", "a", "N">>
  ELSE LET mag == IF x.v < 0 THEN 0 - x.v ELSE x.v
           fr  == FracToStr(mag % Scale, Decimals)
       IN  (IF x.v < 0 THEN <<"-">> ELSE <<>>)
           \o NatToStr(mag \div Scale)
           \o (IF fr = <<>> THEN <<>> ELSE <<".">> \o fr)


\* JavaScript parseInt (radix 10): optional sign and the longest digit prefix.
parseInt(s) ==
  LET neg  == s # <<>> /\ Head(s) = "-"
      body == IF s # <<>> /\ Head(s) \in {"-", "+"} THEN Tail(s) ELSE s
      n    == DigitPrefixLen(body)
      mag  == DigitsVal(SubSeq(body, 1, n))
  IN  IF n = 0 THEN NaN ELSE IF neg THEN Num(0 - mag) ELSE Num(mag)

\* validator.js isInt({ min, max }): no leading zeros, value within the range.
isInt(s, min, max) ==
  LET body == IF s # <<>> /\ Head(s) \in {"-", "+"} THEN Tail(s) ELSE s
  IN  /\ body # <<>>
      /\ DigitPrefixLen(body) = Len(body)
      /\ (body = <<"0">> \/ Head(body) # "0")
      /\ parseInt(s).v >= min
      /\ parseInt(s).v <= max

(***************************************************************************)
(* Requests.  A parameter a route does not have is Undefined.              *)
(***************************************************************************)
Undefined == <<"undefined">>

Kinds == {"current", "currentCoords", "forecast", "forecastCoords", "history", "alerts"}

CoordKinds == {"currentCoords", "forecastCoords"}

Input(kind, location, lat, lon, days, authed) ==
  [kind |-> kind, location |-> location, lat |-> lat, lon |-> lon,
   days |-> days, authed |-> authed]

ByName(kind, location) == Input(kind, location, Undefined, Undefined, Undefined, TRUE)

ByCoords(kind, lat, lon) == Input(kind, Undefined, lat, lon, Undefined, TRUE)

History(location, days, authed) ==
  Input("history", location, Undefined, Undefined, days, authed)

\* The requests the clients of the model send.
Lahore == <<"L">>

Inputs ==
  {ByName("current", Lahore), ByName("forecast", Lahore), ByName("alerts", Lahore)}
  \cup {ByCoords("currentCoords", <<"1">>, <<"2">>),
        ByCoords("currentCoords", <<"9", "5">>, <<"2">>),
        ByCoords("currentCoords", <<"x">>, <<"2">>),
        ByCoords("forecastCoords", <<"1">>, <<"2">>),
        ByCoords("forecastCoords", <<"1">>, <<"-", "2", "0", "0">>)}
  \cup {History(Lahore, Undefined, TRUE), History(Lahore, <<"3">>, TRUE),
        History(Lahore, <<"3", "1">>, TRUE), History(Lahore, <<"3">>, FALSE)}

(***************************************************************************)
(* routes/weatherRoutes.ts: the validation chains of each route.           *)
(***************************************************************************)
\* param('location').notEmpty()
notEmpty(s) == s # <<>>

\* The chains with the alerts route left without its notEmpty chain.
ChainsPass_AlertsUnchecked(inp) ==
  CASE inp.kind \in {"current", "forecast"} -> notEmpty(inp.location)
    [] inp.kind = "alerts" -> TRUE
    [] inp.kind \in CoordKinds -> isFloat(inp.lat) /\ isFloat(inp.lon)
    [] inp.kind = "history" ->
         /\ notEmpty(inp.location)
         /\ (inp.days = Undefined \/ isInt(inp.days, 1, 30))

\* The chains declared on the route of a request kind all pass.
ChainsPass(inp) ==
  CASE inp.kind \in {"current", "forecast", "alerts"} -> notEmpty(inp.location)
    [] inp.kind \in CoordKinds -> isFloat(inp.lat) /\ isFloat(inp.lon)
    [] inp.kind = "history" ->
         /\ notEmpty(inp.location)
         /\ (inp.days = Undefined \/ isInt(inp.days, 1, 30))

\* The auth middleware guards the history route only.
AuthPasses(inp) == inp.kind # "history" \/ inp.authed

\* middleware/validation.ts is not part of the sources: validate answers
\* with a validation failure when a chain of the route has failed, and lets
\* the request through to the handler otherwise.
validate(inp) == ChainsPass(inp)

(***************************************************************************)
(* controllers/weatherController.ts: cache keys and TTLs.                  *)
(***************************************************************************)
PrefixCurrent == <<"w", "e", "a", "t", "h", "e", "r", ":", "c", "u", "r", "r", "e", "n", "t", ":">>

PrefixCoords == <<"w", "e", "a", "t", "h", "e", "r", ":", "c", "o", "o", "r", "d", "s", ":">>

PrefixForecast == <<"f", "o", "r", "e", "c", "a", "s", "t", ":">>

PrefixForecastCoords == <<"f", "o", "r", "e", "c", "a", "s", "t", ":", "c", "o", "o", "r", "d", "s", ":">>

PrefixHistory == <<"h", "i", "s", "t", "o", "r", "y", ":">>

\* parseInt(req.query.days as string) || 7
DaysOf(inp) ==
  LET d == IF inp.days = Undefined THEN NaN ELSE parseInt(inp.days)
  IN  IF d.nan \/ d.v = 0 THEN 7 ELSE d.v

\* `${n}` of an integer day count.
IntToStr(n) == IF n < 0 THEN <<"-">> \o NatToStr(0 - n) ELSE NatToStr(n)

\* Variant: the key of current-by-name leaves the location out.
CacheKey_NoLocation(inp) ==
  CASE inp.kind = "current" -> PrefixCurrent
    [] inp.kind = "currentCoords" ->
         PrefixCoords \o NumToStr(parseFloat(inp.lat)) \o <<":">> \o NumToStr(parseFloat(inp.lon))
    [] inp.kind = "forecast" -> PrefixForecast \o inp.location
    [] inp.kind = "forecastCoords" ->
         PrefixForecastCoords \o NumToStr(parseFloat(inp.lat)) \o <<":">>
           \o NumToStr(parseFloat(inp.lon))
    [] inp.kind = "history" -> PrefixHistory \o inp.location \o <<":">> \o IntToStr(DaysOf(inp))
    [] inp.kind = "alerts" -> Undefined

\* Variant: the key of a history request leaves the day count out.
CacheKey_NoDays(inp) ==
  CASE inp.kind = "current" -> PrefixCurrent \o inp.location
    [] inp.kind = "currentCoords" ->
         PrefixCoords \o NumToStr(parseFloat(inp.lat)) \o <<":">> \o NumToStr(parseFloat(inp.lon))
    [] inp.kind = "forecast" -> PrefixForecast \o inp.location
    [] inp.kind = "forecastCoords" ->
         PrefixForecastCoords \o NumToStr(parseFloat(inp.lat)) \o <<":">>
           \o NumToStr(parseFloat(inp.lon))
    [] inp.kind = "history" -> PrefixHistory \o inp.location
    [] inp.kind = "alerts" -> Undefined

CacheKey(inp) ==
  CASE inp.kind = "current" -> PrefixCurrent \o inp.location
    [] inp.kind = "currentCoords" ->
         PrefixCoords \o NumToStr(parseFloat(inp.lat)) \o <<":">> \o NumToStr(parseFloat(inp.lon))
    [] inp.kind = "forecast" -> PrefixForecast \o inp.location
    [] inp.kind = "forecastCoords" ->
         PrefixForecastCoords \o NumToStr(parseFloat(inp.lat)) \o <<":">>
           \o NumToStr(parseFloat(inp.lon))
    [] inp.kind = "history" -> PrefixHistory \o inp.location \o <<":">> \o IntToStr(DaysOf(inp))
    [] inp.kind = "alerts" -> Undefined

\* Variant: getWeatherAlerts goes through the cache like the other handlers.
UsesCache_All(kind) == TRUE

\* getWeatherAlerts is the one handler without cacheService calls.
UsesCache(kind) == kind # "alerts"

TTL_CURRENT == 600

TTL_FORECAST == 1800

TTL_HISTORY == 3600

\* Variant: every handler passes the TTL of current weather.
TTLOf_AllCurrent(kind) == TTL_CURRENT

\* Variant: the TTLs are a tenth of what they should be.
TTLOf_Short(kind) ==
  CASE kind \in {"current", "currentCoords"} -> TTL_CURRENT \div 10
    [] kind \in {"forecast", "forecastCoords"} -> TTL_FORECAST \div 10
    [] kind = "history" -> TTL_HISTORY \div 10

\* The third argument of cacheService.set in each handler.
TTLOf(kind) ==
  CASE kind \in {"current", "currentCoords"} -> TTL_CURRENT
    [] kind \in {"forecast", "forecastCoords"} -> TTL_FORECAST
    [] kind = "history" -> TTL_HISTORY

(***************************************************************************)
(* utils/ApiError.ts and the values a handler hands to its caller.          *)
(***************************************************************************)
ApiError(statusCode, message) ==
  [type |-> "ApiError", statusCode |-> statusCode, message |-> message,
   isOperational |-> TRUE]

Null == [type |-> "null"]

NoOutcome == [type |-> "none"]

\* res.json(body)
Json(body) == [type |-> "json", body |-> body]

\* An error thrown out of the async handler.
Thrown(error) == [type |-> "thrown", error |-> error]

\* The request was answered by a middleware in front of the controller.
Rejected(status) == [type |-> "rejected", status |-> status]

(***************************************************************************)
(* services/cacheService.ts is not part of the sources: a key/value store  *)
(* with per-entry expiry, an entry being valid iff now < insertedAt + ttl. *)
(***************************************************************************)
CacheGet(c, key, t) ==
  IF key \in DOMAIN c /\ t < c[key].insertedAt + c[key].ttl THEN c[key].payload ELSE Null

CacheSet(c, key, payload, ttl, t) ==
  [k \in DOMAIN c \cup {key} |->
     IF k = key THEN [payload |-> payload, insertedAt |-> t, ttl |-> ttl] ELSE c[k]]

(***************************************************************************)
(* services/weatherService.ts                                              *)
(***************************************************************************)
\* The shapes of a 200 reply of the provider: complete, without the
\* top-level field such as `name` or `visibility` (`dt_txt` or `pop` of a
\* forecast item), without a nested
\* object (`sys`, `main`, `wind`, `weather[0]`, `coord`, `list`).
Shapes == {"full", "noLeaf", "noNested"}

Rejections == {"notfound", "timeout", "transport"}

Resolved(shape, ver) ==
  [resolved |-> TRUE, cause |-> shape,
   data |-> [name |-> IF shape = "noLeaf" THEN Undefined ELSE Lahore,
             nested |-> shape # "noNested",
             temp |-> ver]]

\* axios rejects: an AxiosError with the response status, 0 without response.
Rejection(cause) ==
  [resolved |-> FALSE, cause |-> cause,
   data |-> [isAxiosError |-> TRUE, status |-> IF cause = "notfound" THEN 404 ELSE 0]]

\* The mock methods make no HTTP call; they draw from Math.random (high:
\* the draw of getWeatherAlerts exceeds 0.8).
Mock(ver, high) ==
  [resolved |-> TRUE, cause |-> "mock", data |-> [random |-> ver, high |-> high]]

\* What the provider (or Math.random of the mock methods) can answer to the
\* ver-th call of the service.
UpstreamOutcomes(kind, ver) ==
  CASE kind \in {"current", "currentCoords", "forecast", "forecastCoords"} ->
         {Resolved(sh, ver) : sh \in Shapes} \cup {Rejection(c) : c \in Rejections}
    [] kind = "history" -> {Mock(ver, FALSE)}
    [] kind = "alerts" -> {Mock(ver, FALSE), Mock(ver, TRUE)}

Return(value) == [ok |-> TRUE, value |-> value]

Throw(error) == [ok |-> FALSE, error |-> error]

TypeError == [type |-> "TypeError"]

\* transformWeatherData: a missing nested object throws on the property
\* read, a missing top-level field is copied as undefined.  uvIndex and
\* timestamp are not modelled.
transformWeatherData(data) ==
  IF ~data.nested THEN Throw(TypeError)
  ELSE Return([type |-> "weather", location |-> data.name, temperature |-> data.temp])

\* transformForecastData over a list of one item.
transformForecastData(data) ==
  IF ~data.nested THEN Throw(TypeError)
  ELSE Return([type |-> "forecast", date |-> data.name, temperature |-> data.temp])

ServiceUnavailable == ApiError(500, "Weather service unavailable")

\* The catch block of getCurrentWeather and getForecast.
CatchByName(isAxios404) ==
  IF isAxios404 THEN Throw(ApiError(404, "Location not found")) ELSE Throw(ServiceUnavailable)

\* The catch block of getCurrentWeatherByCoords and getForecastByCoords.
CatchByCoords(isAxios404) == Throw(ServiceUnavailable)

\* The method of weatherService a handler calls, given what axios (or
\* Math.random) produced.
ServiceCall(inp, o) ==
  LET kind == inp.kind
      transformed ==
        IF kind \in {"current", "currentCoords"} THEN transformWeatherData(o.data)
        ELSE transformForecastData(o.data)
      is404 == ~o.resolved /\ o.data.isAxiosError /\ o.data.status = 404
      failed == ~o.resolved \/ ~transformed.ok
  IN  CASE kind \in {"current", "forecast"} ->
             IF failed THEN CatchByName(is404) ELSE transformed
        [] kind \in CoordKinds ->
             IF failed THEN CatchByCoords(is404) ELSE transformed
        [] kind = "history" ->
             Return([type |-> "history", days |-> DaysOf(inp), temperature |-> o.data.random])
        [] kind = "alerts" ->
             Return([type |-> "alerts",
                     alerts |-> IF o.data.high THEN <<inp.location>> ELSE <<>>])

(***************************************************************************)
(* State.                                                                  *)
(***************************************************************************)
VARIABLES
  req,      \* req[r]: the request in slot r and how far its handler has run
  cache,    \* the cache store: key -> [payload, insertedAt, ttl]
  now,      \* the clock, in seconds
  ticks,    \* clock advances so far
  fetches,  \* calls of weatherService methods that have returned
  fav,      \* fav[f]: the Favorite document f, in memory and in the collection
  proc,     \* the server process: HTTP server, MongoDB connection, shutdown
  lim,      \* the rate limiter in front of /api/ and what passed it
  dash      \* the Dashboard component of the browser

vars == <<req, cache, now, ticks, fetches, fav, proc, lim, dash>>

\* The state outside the weather routes.
others == <<fav, proc, lim, dash>>

backend == <<req, cache, now, ticks, fetches>>

(***************************************************************************)
(* pages/Dashboard.tsx: the component after its first render.              *)
(***************************************************************************)
Loads == 1..MaxLoads

\* What useGeolocation() returns: no position yet, a position, or an error.
Locating == [location |-> Null, loading |-> TRUE, error |-> FALSE]

Located(lat, lon) ==
  [location |-> [lat |-> lat, lon |-> lon], loading |-> FALSE, error |-> FALSE]

GeoFailed == [location |-> Null, loading |-> FALSE, error |-> TRUE]

\* Positions on and off the equator and the prime meridian.
GeoStates ==
  {Located(lat, lon) : lat \in {0, 24}, lon \in {0, 67}} \cup {GeoFailed}

\* An optional number argument: a number, or undefined.
Given(v) == [given |-> TRUE, v |-> v]

NotGiven == [given |-> FALSE, v |-> 0]

NoArgs == [lat |-> NotGiven, lon |-> NotGiven, city |-> Undefined]

\* A loadWeatherData call not made yet.  branch is the arm of the if the
\* call took, by says what made the call.
NoLoad == [pc |-> "none", args |-> NoArgs, branch |-> "none", by |-> "none"]

\* currentWeather and forecast hold the number of the load whose data they
\* show, 0 for the initial null and [].
Mounted ==
  [geo |-> Locating, currentWeather |-> 0, forecast |-> 0,
   loading |-> TRUE, refreshing |-> FALSE, load |-> [l \in Loads |-> NoLoad]]

(***************************************************************************)
(* server.ts: the rate limiter.                                            *)
(***************************************************************************)
WINDOW_MINUTES == 15

RATE_MAX == 100

IPs == {"a", "b"}

NoResponse == [ip |-> "none", path |-> "none", status |-> 0]

\* hits is the limiter's counter of each key in the running window, age the
\* minutes the window has run; handled counts the requests of the window
\* the limiter has passed on to the routers, last is the latest response.
FreshLimiter ==
  [hits |-> [ip \in IPs |-> 0], age |-> 0, handled |-> [ip \in IPs |-> 0],
   last |-> NoResponse]

(***************************************************************************)
(* server.ts: the process once startServer() has run.                      *)
(***************************************************************************)
Signals == 1..MaxSignals

Running == [type |-> "running"]

Exited(code) == [type |-> "exited", code |-> code]

\* sig[s] is how far the gracefulShutdown call of the s-th signal has come.
Conns == 1..MaxConns

\* The process once the callback of app.listen has called connectDB().
Started ==
  [http |-> "listening", conn |-> [c \in Conns |-> "none"], mongo |-> "connecting",
   sig |-> [s \in Signals |-> "none"], status |-> Running]

(***************************************************************************)
(* models/Favorite.ts: the documents.                                      *)
(***************************************************************************)
Favs == 1..NumFavs

\* The first two favorites belong to one user.
UserOf(f) == IF f <= 2 THEN 1 ELSE 2

\* A document not yet created: isDefault and modified are the document in
\* memory, stored and storedDefault the document in the collection.
NoFav ==
  [pc |-> "idle", isDefault |-> FALSE, modified |-> FALSE,
   stored |-> FALSE, storedDefault |-> FALSE]

NoInput == Input("none", Undefined, Undefined, Undefined, Undefined, TRUE)

\* A slot no request has arrived in.  reads, upCalls and writes count the
\* calls of cacheService.get, of weatherService and of cacheService.set;
\* after is the set of requests that had completed when this one arrived.
Idle ==
  [pc |-> "idle", inp |-> NoInput, key |-> Undefined, hit |-> "none",
   reads |-> 0, upCalls |-> 0, writes |-> 0, up |-> "none", value |-> Null,
   outcome |-> NoOutcome, startAt |-> 0, doneAt |-> 0, after |-> {}]

Init ==
  /\ req = [r \in Reqs |-> Idle]
  /\ cache = <<>>
  /\ now = 0
  /\ ticks = 0
  /\ fetches = 0
  /\ fav = [f \in Favs |-> NoFav]
  /\ proc = Started
  /\ lim = FreshLimiter
  /\ dash = Mounted

(***************************************************************************)
(* controllers/weatherController.ts: the handlers, one step per await.     *)
(***************************************************************************)
\* The message of the ApiError each handler throws from its catch block.
ControllerMessage(kind) ==
  CASE kind \in {"current", "currentCoords"} -> "Failed to fetch weather data"
    [] kind \in {"forecast", "forecastCoords"} -> "Failed to fetch forecast data"
    [] kind = "history" -> "Failed to fetch historical weather data"
    [] kind = "alerts" -> "Failed to fetch weather alerts"

\* catch (error) { logger.error(...); throw new ApiError(500, ...) }
ControllerCatch(kind, error) == Thrown(ApiError(500, ControllerMessage(kind)))

\* Variant: the test is negated, if (!cached).
Truthy_Negated(cached) == cached = Null

\* if (cached): a cached payload is an object or an array.
Truthy(cached) == cached # Null

\* The route: auth (history only), the validation chains, validate, then the
\* handler up to its first await.
Route(rq, inp, t, done) ==
  LET arrived == [rq EXCEPT !.inp = inp, !.startAt = t, !.after = done]
  IN  IF ~AuthPasses(inp)
        THEN [arrived EXCEPT !.pc = "done", !.doneAt = t, !.outcome = Rejected(401)]
      ELSE IF ~validate(inp)
        THEN [arrived EXCEPT !.pc = "done", !.doneAt = t, !.outcome = Rejected(400)]
      ELSE IF UsesCache(inp.kind)
        THEN [arrived EXCEPT !.pc = "get", !.key = CacheKey(inp), !.reads = @ + 1]
      ELSE [arrived EXCEPT !.pc = "fetch", !.upCalls = @ + 1]

\* Variant: the return is missing on a hit, the handler goes on to the service.
AfterGet_NoReturn(rq, cached, t) ==
  IF Truthy(cached)
    THEN [rq EXCEPT !.pc = "fetch", !.hit = "hit", !.outcome = Json(cached),
                    !.upCalls = @ + 1]
    ELSE [rq EXCEPT !.pc = "fetch", !.hit = "miss", !.upCalls = @ + 1]

\* Variant: a hit writes the payload it has read back to the cache.
AfterGet_WriteBack(rq, cached, t) ==
  IF Truthy(cached)
    THEN [rq EXCEPT !.pc = "set", !.hit = "hit", !.value = cached, !.writes = @ + 1]
    ELSE [rq EXCEPT !.pc = "fetch", !.hit = "miss", !.upCalls = @ + 1]

\* Variant: a hit answers with the cached payload stamped with the time of
\* the answer.
AfterGet_Stamps(rq, cached, t) ==
  IF Truthy(cached)
    THEN [rq EXCEPT !.pc = "done", !.hit = "hit", !.doneAt = t,
                    !.outcome = Json([cached EXCEPT !.temperature = t])]
    ELSE [rq EXCEPT !.pc = "fetch", !.hit = "miss", !.upCalls = @ + 1]

\* Variant: after a miss the handler answers without calling the service.
AfterGet_SkipsService(rq, cached, t) ==
  IF Truthy(cached)
    THEN [rq EXCEPT !.pc = "done", !.hit = "hit", !.doneAt = t,
                    !.outcome = Json(cached)]
    ELSE [rq EXCEPT !.pc = "done", !.hit = "miss", !.doneAt = t,
                    !.outcome = Json(cached)]

\* const cached = await cacheService.get(cacheKey); if (cached) return
\* res.json(cached); otherwise the service method is called.
AfterGet(rq, cached, t) ==
  IF Truthy(cached)
    THEN [rq EXCEPT !.pc = "done", !.hit = "hit", !.doneAt = t,
                    !.outcome = Json(cached)]
    ELSE [rq EXCEPT !.pc = "fetch", !.hit = "miss", !.upCalls = @ + 1]

\* Variant: a failed service call is made a second time before the catch
\* block gives up.
AfterService_Retry(rq, res, cause, t) ==
  IF ~res.ok /\ rq.upCalls < 2
    THEN [rq EXCEPT !.pc = "fetch", !.up = cause, !.upCalls = @ + 1]
  ELSE IF ~res.ok
    THEN [rq EXCEPT !.pc = "done", !.up = cause, !.doneAt = t,
                    !.outcome = ControllerCatch(rq.inp.kind, res.error)]
  ELSE IF UsesCache(rq.inp.kind)
    THEN [rq EXCEPT !.pc = "set", !.up = cause, !.value = res.value, !.writes = @ + 1]
  ELSE [rq EXCEPT !.pc = "done", !.up = cause, !.doneAt = t, !.outcome = Json(res.value)]

\* The service method returned or threw: cacheService.set is called with the
\* value, or the catch block runs.  getWeatherAlerts answers at once.
AfterService(rq, res, cause, t) ==
  IF ~res.ok
    THEN [rq EXCEPT !.pc = "done", !.up = cause, !.doneAt = t,
                    !.outcome = ControllerCatch(rq.inp.kind, res.error)]
  ELSE IF UsesCache(rq.inp.kind)
    THEN [rq EXCEPT !.pc = "set", !.up = cause, !.value = res.value, !.writes = @ + 1]
  ELSE [rq EXCEPT !.pc = "done", !.up = cause, !.doneAt = t, !.outcome = Json(res.value)]

\* await cacheService.set(...) is over: res.json(weather).
AfterSet(rq, t) ==
  [rq EXCEPT !.pc = "done", !.doneAt = t, !.outcome = Json(rq.value)]

Done == {r \in Reqs : req[r].pc = "done"}

\* A request arrives; slots are taken in order.
Receive(r, inp) ==
  /\ req[r].pc = "idle"
  /\ \A q \in Reqs : q < r => req[q].pc # "idle"
  /\ req' = [req EXCEPT ![r] = Route(req[r], inp, now, Done)]
  /\ UNCHANGED <<cache, now, ticks, fetches>>
  /\ UNCHANGED others

\* cacheService.get answers.
CacheGetReturns(r) ==
  /\ req[r].pc = "get"
  /\ req' = [req EXCEPT ![r] = AfterGet(req[r], CacheGet(cache, req[r].key, now), now)]
  /\ UNCHANGED <<cache, now, ticks, fetches>>
  /\ UNCHANGED others

\* The weatherService method called by the handler of r settles.
ServiceReturns(r) ==
  /\ req[r].pc = "fetch"
  /\ \E o \in UpstreamOutcomes(req[r].inp.kind, fetches + 1) :
       req' = [req EXCEPT ![r] = AfterService(req[r], ServiceCall(req[r].inp, o), o.cause, now)]
  /\ fetches' = fetches + 1
  /\ UNCHANGED <<cache, now, ticks>>
  /\ UNCHANGED others

\* Variant: a write over an existing entry keeps the temperature of the
\* payload it finds there.
CacheSetReturns_Merges(r) ==
  /\ req[r].pc = "set"
  /\ cache' = CacheSet(cache, req[r].key,
                       IF req[r].key \in DOMAIN cache
                         THEN [req[r].value EXCEPT
                                 !.temperature = cache[req[r].key].payload.temperature]
                         ELSE req[r].value,
                       TTLOf(req[r].inp.kind), now)
  /\ req' = [req EXCEPT ![r] = AfterSet(req[r], now)]
  /\ UNCHANGED <<now, ticks, fetches>>
  /\ UNCHANGED others

\* cacheService.set stores the entry and answers.
CacheSetReturns(r) ==
  /\ req[r].pc = "set"
  /\ cache' = CacheSet(cache, req[r].key, req[r].value, TTLOf(req[r].inp.kind), now)
  /\ req' = [req EXCEPT ![r] = AfterSet(req[r], now)]
  /\ UNCHANGED <<now, ticks, fetches>>
  /\ UNCHANGED others

\* Time passes: a second at a time while a handler is awaiting a reply,
\* up to just short of a TTL between requests.
TickSteps == {1, TTL_CURRENT - 1, TTL_FORECAST - 1, TTL_HISTORY - 1}

InFlight == {r \in Reqs : req[r].pc \in {"get", "fetch", "set"}}

Tick(d) ==
  /\ ticks < MaxTicks
  /\ InFlight # {} => d = 1
  /\ now' = now + d
  /\ ticks' = ticks + 1
  /\ UNCHANGED <<req, cache, fetches>>
  /\ UNCHANGED others

\* The handlers, the clock standing still.
Next ==
  \/ \E r \in Reqs, inp \in Inputs : Receive(r, inp)
  \/ \E r \in Reqs : CacheGetReturns(r)
  \/ \E r \in Reqs : ServiceReturns(r)
  \/ \E r \in Reqs : CacheSetReturns(r)

Spec == Init /\ [][Next]_vars

\* A client that sends the cached request kinds one request after the
\* other, with time passing between and during the requests.
TimedInputs ==
  {ByName("current", Lahore), ByCoords("forecastCoords", <<"1">>, <<"2">>),
   History(Lahore, Undefined, TRUE)}

ReceiveNext(r, inp) ==
  /\ InFlight = {}
  /\ Receive(r, inp)

NextTimed ==
  \/ \E r \in Reqs, inp \in TimedInputs : ReceiveNext(r, inp)
  \/ \E r \in Reqs : CacheGetReturns(r)
  \/ \E r \in Reqs : ServiceReturns(r)
  \/ \E r \in Reqs : CacheSetReturns(r)
  \/ \E d \in TickSteps : Tick(d)

SpecTimed == Init /\ [][NextTimed]_vars

(***************************************************************************)
(* Properties.                                                             *)
(***************************************************************************)

\* C1: a request of any cached kind whose cache lookup is a hit makes no call
\* of the upstream weather client: it is answered at once from the cache.
C1_HitMakesNoUpstreamCall ==
  \A r \in Reqs :
    req[r].hit = "hit" =>
      /\ UsesCache(req[r].inp.kind)
      /\ req[r].upCalls = 0
      /\ req[r].up = "none"
      /\ req[r].pc = "done"
      /\ req[r].outcome.type = "json"

C1_Witness ==
  \E r \in Reqs :
    /\ req[r].hit = "hit"
    /\ req[r].pc = "done"
    /\ req[r].inp.kind = "forecastCoords"
    /\ fetches = 1

C3_ExpiredEntryIsAMiss ==
  [][\A r \in Reqs :
       LET k == req[r].key
           present == k \in DOMAIN cache
           expired == present /\ now >= cache[k].insertedAt + cache[k].ttl
       IN  /\ (req[r].pc = "get" /\ req'[r].pc # "get") =>
                /\ (~present \/ expired) =>
                     /\ req'[r].hit = "miss"
                     /\ req'[r].pc = "fetch"
                     /\ req'[r].upCalls = 1
                     /\ req'[r].outcome = NoOutcome
                /\ (present /\ ~expired) =>
                     /\ req'[r].hit = "hit"
                     /\ req'[r].pc = "done"
                     /\ req'[r].upCalls = 0
                     /\ req'[r].outcome = Json(cache[k].payload)
           /\ (req[r].pc = "set" /\ req'[r].pc = "done") =>
                /\ cache'[k].payload = req[r].value
                /\ cache'[k].insertedAt = now
    ]_vars

C3_Witness ==
  \E r, q \in Reqs :
    /\ q \in req[r].after
    /\ req[q].key = req[r].key
    /\ req[q].writes = 1
    /\ req[r].hit = "miss"
    /\ req[r].pc = "done"
    /\ req[r].outcome.type = "json"
    /\ req[r].startAt = req[q].doneAt + TTL_FORECAST
    /\ cache[req[r].key].payload = req[r].value
    /\ cache[req[r].key].payload # req[q].value

\* C4: a current-weather-by-name request that finds no entry under its key
\* calls the service once; when the service returns, the normalized reply
\* is written once, under weather:current:<location> with TTL 600, and the
\* same payload is the body of the response.
C4_ColdCurrentRequest ==
  [][\A r \in Reqs :
       req[r].inp.kind = "current" =>
         LET K == PrefixCurrent \o req[r].inp.location
         IN  /\ (req[r].pc = "get" /\ req'[r].pc # "get" /\ K \notin DOMAIN cache) =>
                  /\ req'[r].pc = "fetch"
                  /\ req'[r].upCalls = 1
                  /\ req'[r].writes = 0
             /\ (req[r].pc = "fetch" /\ req'[r].pc = "set") =>
                  /\ req'[r].value.type = "weather"
                  /\ req'[r].value.temperature = fetches'
                  /\ req'[r].upCalls = 1
                  /\ req'[r].writes = 1
             /\ (req[r].pc = "set" /\ req'[r].pc = "done") =>
                  /\ cache' = [k \in DOMAIN cache \cup {K} |->
                                 IF k = K
                                   THEN [payload |-> req[r].value, insertedAt |-> now,
                                         ttl |-> 600]
                                   ELSE cache[k]]
                  /\ req'[r].outcome = Json(req[r].value)
                  /\ req'[r].reads = 1
                  /\ req'[r].upCalls = 1
                  /\ req'[r].writes = 1
    ]_vars

C4_Witness ==
  \E r \in Reqs :
    /\ req[r].inp = ByName("current", Lahore)
    /\ req[r].after = {}
    /\ req[r].pc = "done"
    /\ req[r].hit = "miss"
    /\ req[r].upCalls = 1
    /\ req[r].writes = 1
    /\ req[r].outcome = Json(req[r].value)
    /\ cache = (PrefixCurrent \o Lahore :> [payload |-> req[r].value, insertedAt |-> now,
                                            ttl |-> 600])

\* C5, as claimed: of two requests for the same cached kind and location,
\* the second arriving after the first was answered with a payload and less
\* than the kind's TTL after that answer, exactly one calls upstream.
C5_OneCallWithinTTLOfCompletion ==
  \A r1, r2 \in Reqs :
    ( /\ r1 \in req[r2].after
      /\ req[r2].inp = req[r1].inp
      /\ req[r1].outcome.type = "json"
      /\ UsesCache(req[r1].inp.kind)
      /\ req[r2].pc = "done"
      /\ req[r2].startAt <
           req[r1].doneAt + (CASE req[r1].inp.kind \in {"current", "currentCoords"} -> 600
                               [] req[r1].inp.kind \in {"forecast", "forecastCoords"} -> 1800
                               [] req[r1].inp.kind = "history" -> 3600) )
    => req[r1].upCalls + req[r2].upCalls = 1

\* C5, amended: when the first request missed and was answered with the
\* payload it wrote, and cacheService.get of the second answers less than the
\* kind's TTL after that write, the second is a hit and the two requests
\* have made exactly one upstream call.
C5_OneCallWithinTTLOfWrite ==
  [][\A r1, r2 \in Reqs :
       ( /\ req[r2].pc = "get"
         /\ req'[r2].pc # "get"
         /\ r1 \in req[r2].after
         /\ req[r2].inp = req[r1].inp
         /\ req[r1].outcome.type = "json"
         /\ req[r1].hit = "miss"
         /\ now < req[r1].doneAt + (CASE req[r1].inp.kind \in {"current", "currentCoords"} -> 600
                                      [] req[r1].inp.kind \in {"forecast", "forecastCoords"} -> 1800
                                      [] req[r1].inp.kind = "history" -> 3600) )
       => /\ req'[r2].hit = "hit"
          /\ req'[r2].pc = "done"
          /\ req[r1].upCalls + req'[r2].upCalls = 1
    ]_vars

C5_Witness ==
  \E r1, r2 \in Reqs :
    /\ r1 \in req[r2].after
    /\ req[r2].inp = req[r1].inp
    /\ req[r1].inp.kind = "current"
    /\ req[r1].hit = "miss"
    /\ req[r1].outcome.type = "json"
    /\ req[r2].hit = "hit"
    /\ req[r2].doneAt = req[r1].doneAt + 599
    /\ req[r1].upCalls + req[r2].upCalls = 1

\* C6: the entry a handler writes carries the TTL of its request kind, 600
\* for current weather, 1800 for forecasts, 3600 for historical data, by
\* name and by coordinates alike; the store never holds another TTL.
C6_TTLPerKind ==
  [][/\ \A r \in Reqs :
          (req[r].pc = "set" /\ req'[r].pc = "done") =>
            cache'[req[r].key].ttl =
              (CASE req[r].inp.kind \in {"current", "currentCoords"} -> 600
                 [] req[r].inp.kind \in {"forecast", "forecastCoords"} -> 1800
                 [] req[r].inp.kind = "history" -> 3600)
     /\ \A k \in DOMAIN cache' : cache'[k].ttl \in {600, 1800, 3600}
    ]_vars

C6_Witness ==
  \E r, q \in Reqs :
    /\ req[r].inp.kind = "forecastCoords"
    /\ req[q].inp.kind = "history"
    /\ req[r].pc = "done"
    /\ req[q].pc = "done"
    /\ req[r].key \in DOMAIN cache
    /\ req[q].key \in DOMAIN cache
    /\ cache[req[r].key].ttl = 1800
    /\ cache[req[q].key].ttl = 3600

\* C7: an alerts request calls weatherService.getWeatherAlerts exactly once,
\* whatever came before it, never calls cacheService.get or cacheService.set,
\* and none of its steps changes the cache store.
C7_AlertsAlwaysLive ==
  [][\A r \in Reqs :
       req'[r].inp.kind = "alerts" =>
         /\ req'[r].reads = 0
         /\ req'[r].writes = 0
         /\ req'[r].hit = "none"
         /\ req'[r].pc \in {"fetch", "done"}
         /\ req'[r].upCalls = 1
         /\ req'[r].pc = "done" =>
              /\ req'[r].up = "mock"
              /\ req'[r].outcome.type = "json"
              /\ req'[r].outcome.body.type = "alerts"
         /\ req'[r] # req[r] => cache' = cache
    ]_vars

C7_Witness ==
  \E r1, r2 \in Reqs :
    /\ r1 \in req[r2].after
    /\ req[r1].inp.kind = "alerts"
    /\ req[r2].inp = req[r1].inp
    /\ req[r2].pc = "done"
    /\ req[r1].upCalls = 1
    /\ req[r2].upCalls = 1
    /\ fetches = 2

\* C8: a request whose upstream call failed, by not-found, timeout, transport
\* error or a reply lacking fields, has made no cacheService.set call and ends
\* with an error.
C8_FailureNeverStored ==
  \A r \in Reqs :
    req[r].up \in {"notfound", "timeout", "transport", "noLeaf", "noNested"} =>
      /\ req[r].writes = 0
      /\ req[r].pc = "done"
      /\ req[r].outcome.type = "thrown"

\* C9: a request whose upstream call ended with not-found is answered with a
\* NotFound failure (status 404), by name and by coordinates.
C9_NotFoundReachesCaller ==
  \A r \in Reqs :
    (req[r].up = "notfound" /\ req[r].pc = "done") =>
      /\ req[r].outcome.type = "thrown"
      /\ req[r].outcome.error.statusCode = 404

\* C10: a coordinate request with a latitude outside -90..90 or a longitude
\* outside -180..180 is answered with a validation failure and makes no
\* cacheService.get, cacheService.set or weatherService call.
C10_OutOfRangeCoordsRejected ==
  \A r \in Reqs :
    LET lat == parseFloat(req[r].inp.lat)
        lon == parseFloat(req[r].inp.lon)
    IN  ( /\ req[r].inp.kind \in CoordKinds
          /\ \/ ~lat.nan /\ (lat.v < 0 - 90 * Scale \/ lat.v > 90 * Scale)
             \/ ~lon.nan /\ (lon.v < 0 - 180 * Scale \/ lon.v > 180 * Scale) )
        => /\ req[r].pc = "done"
           /\ req[r].outcome = Rejected(400)
           /\ req[r].reads = 0
           /\ req[r].upCalls = 0
           /\ req[r].writes = 0


(***************************************************************************)
(* Requests by name, with and without a location.                          *)
(***************************************************************************)
NameKinds == {"current", "forecast", "history", "alerts"}

Empty == << >>

NameInputs ==
  {ByName(k, n) : k \in {"current", "forecast", "alerts"}, n \in {Lahore, Empty}}
    \cup {History(n, Undefined, TRUE) : n \in {Lahore, Empty}}

NextNames ==
  \/ \E r \in Reqs, inp \in NameInputs : Receive(r, inp)
  \/ \E r \in Reqs : CacheGetReturns(r)
  \/ \E r \in Reqs : ServiceReturns(r)
  \/ \E r \in Reqs : CacheSetReturns(r)

SpecNames == Init /\ [][NextNames]_vars

CacheGetFails(r) ==
  /\ req[r].pc = "get"
  /\ req' = [req EXCEPT ![r] =
               [req[r] EXCEPT !.pc = "done", !.hit = "fault", !.doneAt = now,
                         !.outcome = ControllerCatch(req[r].inp.kind, "cache")]]
  /\ UNCHANGED <<cache, now, ticks, fetches>>
  /\ UNCHANGED others

\* await cacheService.set(...) rejects: nothing is stored, the catch block of
\* the handler runs and res.json(weather) is never reached.
CacheSetFails(r) ==
  /\ req[r].pc = "set"
  /\ req' = [req EXCEPT ![r] =
               [req[r] EXCEPT !.pc = "done", !.doneAt = now,
                         !.outcome = ControllerCatch(req[r].inp.kind, "cache")]]
  /\ UNCHANGED <<cache, now, ticks, fetches>>
  /\ UNCHANGED others

FaultInputs == {ByName("current", Lahore), ByCoords("forecastCoords", <<"1">>, <<"2">>)}

NextFault ==
  \/ \E r \in Reqs, inp \in FaultInputs : Receive(r, inp)
  \/ \E r \in Reqs : CacheGetReturns(r)
  \/ \E r \in Reqs : CacheGetFails(r)
  \/ \E r \in Reqs : ServiceReturns(r)
  \/ \E r \in Reqs : CacheSetReturns(r)
  \/ \E r \in Reqs : CacheSetFails(r)

SpecFault == Init /\ [][NextFault]_vars

\* C12: a request whose cache read failed goes on as after a miss and calls
\* the service, and a request whose cache write failed still answers with the
\* payload the service returned.
C12_CacheFaultNotFatal ==
  \A r \in Reqs :
    /\ req[r].hit = "fault" =>
         /\ req[r].upCalls = 1
         /\ req[r].outcome.type # "thrown"
    /\ (req[r].pc = "done" /\ req[r].writes = 1) => req[r].outcome = Json(req[r].value)


(***************************************************************************)
(* The failure classes of the error taxonomy.                              *)
(***************************************************************************)
\* The class of the failure a request has met, "none" when it met none.
FailureClass(rq) ==
  IF rq.outcome = Rejected(400) THEN "ValidationError"
  ELSE IF rq.up = "notfound" THEN "NotFound"
  ELSE IF rq.up \in {"timeout", "transport"} THEN "ServiceUnavailable"
  ELSE IF rq.up \in {"noLeaf", "noNested"} THEN "DataIntegrity"
  ELSE "none"

Failed == {r \in Done : FailureClass(req[r]) # "none"}

\* C13: the failures of two completed requests of different classes are
\* different caller-visible outcomes, and the failure of no class is the
\* handler's generic 500.
C13_FailureClassesDistinct ==
  /\ \A r, q \in Failed :
       FailureClass(req[r]) # FailureClass(req[q]) => req[r].outcome # req[q].outcome
  /\ \A r \in Failed :
       /\ req[r].outcome.type \in {"thrown", "rejected"}
       /\ req[r].outcome # ControllerCatch(req[r].inp.kind, "any")


\* A normalized payload one of whose fields was copied as undefined.
Partial(payload) ==
  CASE payload.type = "weather" -> payload.location = Undefined
    [] payload.type = "forecast" -> payload.date = Undefined
    [] OTHER -> FALSE

Malformed == {"noLeaf", "noNested"}

\* C14: a request whose upstream reply lacked a field the normalization
\* reads, once done, has ended in a failure, and no payload with an
\* undefined field is ever the body of a response or the payload of a cache
\* entry.
C14_MalformedReplyIsAFailure ==
  /\ \A r \in Done : req[r].up \in Malformed => req[r].outcome.type = "thrown"
  /\ \A r \in Reqs : req[r].outcome.type = "json" => ~Partial(req[r].outcome.body)
  /\ \A k \in DOMAIN cache : ~Partial(cache[k].payload)


(***************************************************************************)
(* The order of the steps of one request.                                  *)
(***************************************************************************)
\* The steps a handler can take: from arrival to the cache read (or, for
\* alerts, to the service call), from the read to the answer (hit) or to the
\* service call (miss), from the service call to the cache write (success)
\* or to the failure, from the write to the answer.
HandlerSteps ==
  {<<"idle", "done">>, <<"idle", "get">>, <<"idle", "fetch">>,
   <<"get", "done">>, <<"get", "fetch">>,
   <<"fetch", "set">>, <<"fetch", "done">>,
   <<"set", "done">>}

\* C15: every step of a request is one of the handler's steps in their
\* order; a cache read, a service call and a cache write are each counted
\* when the step that makes the call is taken and at most once; the service
\* is called after a miss only (alerts: without a read), the write follows a
\* service call that returned; a completed request takes no further step.
C15_StepsInOrderNoRetry ==
  [][\A r \in Reqs :
       LET a == req[r] 
           b == req'[r]
       IN  /\ a.pc # b.pc => <<a.pc, b.pc>> \in HandlerSteps
           /\ a.pc = b.pc => a = b
           /\ b.reads = a.reads + (IF a.pc # b.pc /\ b.pc = "get" THEN 1 ELSE 0)
           /\ b.upCalls = a.upCalls + (IF a.pc # b.pc /\ b.pc = "fetch" THEN 1 ELSE 0)
           /\ b.writes = a.writes + (IF a.pc # b.pc /\ b.pc = "set" THEN 1 ELSE 0)
           /\ b.reads <= 1 /\ b.upCalls <= 1 /\ b.writes <= 1
           /\ b.upCalls = 1 => (IF UsesCache(b.inp.kind)
                                  THEN b.reads = 1 /\ b.hit = "miss"
                                  ELSE b.reads = 0)
           /\ b.writes = 1 => b.upCalls = 1 /\ b.up \in {"full", "noLeaf", "mock"}
           /\ b.hit = "hit" => b.reads = 1 /\ b.upCalls = 0 /\ b.writes = 0
           /\ <<a.pc, b.pc>> = <<"idle", "fetch">> => b.inp.kind = "alerts"
     ]_vars

C15_Witness ==
  \E r, q \in Reqs :
    /\ req[r].pc = "done"
    /\ req[r].inp.kind = "forecast"
    /\ req[r].reads = 1 /\ req[r].upCalls = 1 /\ req[r].writes = 1
    /\ req[r].outcome.type = "json"
    /\ req[q].pc = "done"
    /\ req[q].inp.kind = "currentCoords"
    /\ req[q].up = "timeout"
    /\ req[q].reads = 1 /\ req[q].upCalls = 1 /\ req[q].writes = 0


(***************************************************************************)
(* What becomes of the ApiError an async handler throws.  The handlers     *)
(* are registered as they are, with no wrapper that passes the rejection   *)
(* of their promise to next(): whether the error reaches errorHandler is   *)
(* up to the Express release of the build (5 forwards the rejection, 4     *)
(* ignores the promise), so both outcomes are steps of the model.          *)
(***************************************************************************)
Threw(r) == req[r].pc = "done" /\ req[r].outcome.type = "thrown"

\* The rejection is passed on and errorHandler answers with the error's
\* status code and message.
ErrorHandlerAnswers(r) ==
  /\ Threw(r)
  /\ req' = [req EXCEPT ![r].pc = "answered"]
  /\ UNCHANGED <<cache, now, ticks, fetches>>
  /\ UNCHANGED others

\* The rejection is handled by nobody: no response is ever written.
RejectionUnhandled(r) ==
  /\ Threw(r)
  /\ req' = [req EXCEPT ![r].pc = "unhandled"]
  /\ UNCHANGED <<cache, now, ticks, fetches>>
  /\ UNCHANGED others

\* The caller has received a payload or a failure.
Answered(r) ==
  \/ req[r].pc = "done" /\ req[r].outcome.type \in {"json", "rejected"}
  \/ req[r].pc = "answered"

LiveInputs == {ByName("current", Lahore), ByName("alerts", Lahore), ByName("forecast", Empty)}

NextLive ==
  \/ \E r \in Reqs, inp \in LiveInputs : Receive(r, inp)
  \/ \E r \in Reqs : CacheGetReturns(r)
  \/ \E r \in Reqs : ServiceReturns(r)
  \/ \E r \in Reqs : CacheSetReturns(r)
  \/ \E r \in Reqs : ErrorHandlerAnswers(r)
  \/ \E r \in Reqs : RejectionUnhandled(r)

\* The cache answers every call, the provider answers or the 10 s timeout
\* of axios fires, and Express runs what it has to run.
SpecLive ==
  /\ Init
  /\ [][NextLive]_vars
  /\ \A r \in Reqs :
       /\ WF_vars(CacheGetReturns(r))
       /\ WF_vars(ServiceReturns(r))
       /\ WF_vars(CacheSetReturns(r))
       /\ WF_vars(ErrorHandlerAnswers(r) \/ RejectionUnhandled(r))

\* C16: every request that has passed auth and validation and is in its
\* handler is eventually answered: the caller receives a payload or a
\* failure, on the failure path too.
C16_AcceptedRequestIsAnswered ==
  \A r \in Reqs : (req[r].pc \in {"get", "fetch", "set"}) ~> Answered(r)


(***************************************************************************)
(* Concurrent requests for one key.                                        *)
(***************************************************************************)
\* The requests under key k whose cache lookup has been answered.
LookedUp(k) == {r \in Reqs : req[r].key = k /\ req[r].hit # "none"}

RECURSIVE SumCalls(_)
\* The number of service calls the requests of S have made.
SumCalls(S) ==
  IF S = {} THEN 0
  ELSE LET r == CHOOSE x \in S : TRUE
       IN  req[r].upCalls + SumCalls(S \ {r})

KeysInUse == {req[r].key : r \in {q \in Reqs : req[q].key # Undefined}}

\* C17: for every key, starting from a cache without the key, the requests
\* whose lookup has been answered have made one service call per miss, at
\* least one and at most one each; nothing holds a request back while
\* another request for the same key is under way.
C17_CallsBetweenOneAndN ==
  \A k \in KeysInUse :
    LET R == LookedUp(k)
    IN  R # {} =>
          /\ SumCalls(R) >= 1
          /\ SumCalls(R) <= Cardinality(R)
          /\ SumCalls(R) = Cardinality({r \in R : req[r].hit = "miss"})

\* Every request is for the same key, has missed and has called the service.
C17_Witness ==
  /\ \A r \in Reqs :
       /\ req[r].inp = ByName("current", Lahore)
       /\ req[r].hit = "miss"
       /\ req[r].upCalls = 1
       /\ req[r].after = {}
  /\ fetches = NumReq


\* The requests whose cache write is completed by the step.
Writers == {r \in Reqs : req[r].pc = "set" /\ req'[r].pc = "done"}

\* C18: the step that completes the cache write of a request leaves under
\* the request's key the whole payload the service returned to it and leaves
\* every other entry as it was; an entry changes in such a step only, so
\* that every entry is at all times the whole payload of the last write to
\* its key.
C18_LastWriterWins ==
  [][/\ \A r \in Writers :
          /\ req[r].key \in DOMAIN cache'
          /\ cache'[req[r].key].payload = req[r].value
          /\ \A k \in DOMAIN cache \ {req[r].key} : k \in DOMAIN cache' /\ cache'[k] = cache[k]
     /\ \A k \in DOMAIN cache' :
          (k \notin DOMAIN cache \/ cache'[k] # cache[k]) =>
             \E r \in Writers : req[r].key = k
     /\ \A k \in DOMAIN cache' :
          \E r \in Reqs :
            /\ req'[r].key = k
            /\ req'[r].pc = "done"
            /\ req'[r].writes = 1
            /\ cache'[k].payload = req'[r].value
    ]_vars

\* <<"2">> requests have written different payloads under one key; the entry
\* holds the payload of one of them.
C18_Witness ==
  \E r, q \in Reqs :
    /\ r # q
    /\ req[r].key = req[q].key
    /\ req[r].pc = "done" /\ req[r].writes = 1
    /\ req[q].pc = "done" /\ req[q].writes = 1
    /\ req[r].value # req[q].value
    /\ cache[req[r].key].payload = req[q].value


(***************************************************************************)
(* Cache keys of requests that denote the same thing.                      *)
(***************************************************************************)
\* The number of decimal places of a coordinate in a key, as the design
\* requires it ("fixed-precision, e.g. 2-4 decimal places").
KeyPrecision == 2

\* A number rounded to KeyPrecision decimal places, in units of that place.
AtKeyPrecision(x) ==
  LET unit == Pow10(Decimals - KeyPrecision)
  IN  (2 * x.v + unit) \div (2 * unit)

KeyInputs ==
  {ByCoords("currentCoords", lat, <<"2">>) : lat \in {<<"1">>, <<"1", ".", "0", "0", "4">>, <<"1", ".", "0">>}}
    \cup {History(Lahore, days, TRUE) : days \in {Undefined, <<"7">>, <<"3">>}}

NextKeys ==
  \/ \E r \in Reqs, inp \in KeyInputs : Receive(r, inp)
  \/ \E r \in Reqs : CacheGetReturns(r)
  \/ \E r \in Reqs : ServiceReturns(r)
  \/ \E r \in Reqs : CacheSetReturns(r)

SpecKeys == Init /\ [][NextKeys]_vars

\* <<"2">> requests of one kind denote the same thing: the same location name
\* (and day count), or the same coordinate pair at the key precision.
SameRequest(a, b) ==
  /\ a.kind = b.kind
  /\ IF a.kind \in CoordKinds
       THEN /\ AtKeyPrecision(parseFloat(a.lat)) = AtKeyPrecision(parseFloat(b.lat))
            /\ AtKeyPrecision(parseFloat(a.lon)) = AtKeyPrecision(parseFloat(b.lon))
       ELSE a.location = b.location /\ DaysOf(a) = DaysOf(b)

\* C19: two requests of the same kind for the same location name, or for the
\* same coordinate pair at the key precision, have computed the same key.
C19_SameRequestSameKey ==
  \A r, q \in Reqs :
    (req[r].key # Undefined /\ req[q].key # Undefined
       /\ SameRequest(req[r].inp, req[q].inp)) => req[r].key = req[q].key


\* The day count a history request of KeyInputs asks for: 7 when it names
\* none.
DaysAsked(inp) ==
  IF inp.days = Undefined THEN 7
  ELSE IF inp.days = <<"7">> THEN 7
  ELSE 3

HistoryReqs == {r \in Reqs : req[r].inp.kind = "history" /\ req[r].key # Undefined}

\* C20: two history requests for one location have the same key exactly
\* when they ask for the same day count, no day count counting as 7, and
\* every history request is answered with a payload of its own day count,
\* from the cache or from the service.
C20_DayCountInKey ==
  /\ \A r, q \in HistoryReqs :
       req[r].inp.location = req[q].inp.location =>
         (req[r].key = req[q].key <=> DaysAsked(req[r].inp) = DaysAsked(req[q].inp))
  /\ \A r \in HistoryReqs :
       /\ req[r].inp.days = Undefined => req[r].key = PrefixHistory \o Lahore \o <<":", "7">>
       /\ req[r].outcome.type = "json" => req[r].outcome.body.days = DaysAsked(req[r].inp)
       /\ req[r].hit = "hit" =>
            \E q \in HistoryReqs :
              /\ q # r
              /\ DaysAsked(req[q].inp) = DaysAsked(req[r].inp)
              /\ req[q].writes = 1
              /\ req[r].outcome = Json(req[q].value)

\* A request without a day count is answered from the entry an explicit
\* days=7 request wrote.
C20_Witness ==
  \E r, q \in Reqs :
    /\ req[q].inp = History(Lahore, <<"7">>, TRUE)
    /\ req[q].hit = "miss" /\ req[q].writes = 1 /\ req[q].pc = "done"
    /\ req[r].inp = History(Lahore, Undefined, TRUE)
    /\ req[r].hit = "hit"
    /\ req[r].outcome = Json(req[q].value)


(***************************************************************************)
(* A client that goes on sending: the slot of an answered request is taken *)
(* by a later request of the same client.                                  *)
(***************************************************************************)
RepeatInputs == {ByName("current", Lahore)}

\* Every request of the client is answered: the exchange of one of them is
\* over and its slot is free again.
Release(r) ==
  /\ \A q \in Reqs : req[q].pc = "done"
  /\ fetches < MaxFetches
  /\ req' = [req EXCEPT ![r] = Idle]
  /\ UNCHANGED <<cache, now, ticks, fetches>>
  /\ UNCHANGED others

NextRepeat ==
  \/ \E r \in Reqs, inp \in RepeatInputs : ReceiveNext(r, inp)
  \/ \E r \in Reqs : CacheGetReturns(r)
  \/ \E r \in Reqs : ServiceReturns(r)
  \/ \E r \in Reqs : CacheSetReturns(r)
  \/ \E r \in Reqs : Release(r)
  \/ \E d \in TickSteps : Tick(d)

SpecRepeat == Init /\ [][NextRepeat]_vars

\* The requests answered from the cache under the key of their own.
Hits == {r \in Reqs : req[r].pc = "done" /\ req[r].hit = "hit"}

\* C21: two requests answered from the cache under one key, the entry of
\* the key not written since the earlier of the two answers, have received
\* identical payloads, and the payload is the entry's.
C21_HitsReturnSamePayload ==
  \A r, q \in Hits :
    (req[r].key = req[q].key
       /\ req[r].key \in DOMAIN cache
       /\ cache[req[r].key].insertedAt <= req[r].doneAt
       /\ cache[req[r].key].insertedAt <= req[q].doneAt) =>
      /\ req[r].outcome = req[q].outcome
      /\ req[r].outcome = Json(cache[req[r].key].payload)

\* <<"2">> hits under one key at different times, the entry older than both.
C21_Witness ==
  \E r, q \in Hits :
    /\ r # q
    /\ req[r].key = req[q].key
    /\ req[r].doneAt < req[q].doneAt
    /\ cache[req[r].key].insertedAt < req[r].doneAt
    /\ req[r].outcome = req[q].outcome
    /\ req[r].outcome.type = "json"


(***************************************************************************)
(* Requests by name whose location reads like the tail of another key.     *)
(***************************************************************************)
\* GET /forecast/coords:1:2 is matched by '/forecast/:location', which is
\* registered ahead of '/forecast/coords/:lat/:lon'.
CoordsLikeName == <<"c", "o", "o", "r", "d", "s", ":", "1", ":", "2">>

CollideInputs ==
  {ByName("forecast", CoordsLikeName), ByName("forecast", Lahore),
   ByCoords("forecastCoords", <<"1">>, <<"2">>), ByName("current", CoordsLikeName),
   ByCoords("currentCoords", <<"1">>, <<"2">>)}

NextCollide ==
  \/ \E r \in Reqs, inp \in CollideInputs : Receive(r, inp)
  \/ \E r \in Reqs : CacheGetReturns(r)
  \/ \E r \in Reqs : ServiceReturns(r)
  \/ \E r \in Reqs : CacheSetReturns(r)

SpecCollide == Init /\ [][NextCollide]_vars

\* The logical request of an input: its kind with the location name, or
\* with the coordinate pair as numbers, and the day count of a history
\* request.
Logical(inp) ==
  IF inp.kind \in CoordKinds
    THEN <<inp.kind, parseFloat(inp.lat), parseFloat(inp.lon)>>
    ELSE <<inp.kind, inp.location, DaysOf(inp)>>

\* C22: two requests that have computed the same key are the same logical
\* request, and a request answered from the cache receives a payload that a
\* request of its own kind has stored.
C22_KeysInjective ==
  /\ \A r, q \in Reqs :
       (req[r].key # Undefined /\ req[r].key = req[q].key) =>
          Logical(req[r].inp) = Logical(req[q].inp)
  /\ \A r \in Hits :
       \E q \in Reqs :
         /\ req[q].writes = 1
         /\ req[r].outcome = Json(req[q].value)
         /\ Logical(req[q].inp) = Logical(req[r].inp)


(***************************************************************************)
(* The order of the fetches and the order of the writes.                   *)
(***************************************************************************)
\* The requests that have stored a payload under key k.  The temperature of
\* a payload is the number of the service call that returned it.
Stored(k) == {r \in Done : req[r].key = k /\ req[r].writes = 1 /\ req[r].outcome.type = "json"}

\* C23: once every request is answered, the entry of each key holds the
\* payload that was fetched last among the payloads stored under the key.
C23_NewestFetchStays ==
  (\A r \in Reqs : req[r].pc = "done") =>
    \A k \in DOMAIN cache :
      \A r \in Stored(k) : req[r].value.temperature <= cache[k].payload.temperature


(***************************************************************************)
(* models/Favorite.ts: save() with the pre('save') hook.                   *)
(***************************************************************************)
\* The application sets isDefault of document f and calls save(): the hook
\* runs up to its await, or calls next() at once.  A new document counts as
\* modified; a loaded one when the value set differs from the one it holds.
Save(f, isDefault) ==
  /\ fav[f].pc \in {"idle", "saved"}
  /\ LET modified == fav[f].pc = "idle" \/ isDefault # fav[f].isDefault
     IN  fav' = [fav EXCEPT ![f] =
                   [@ EXCEPT !.isDefault = isDefault,
                             !.modified = modified,
                             !.pc = IF isDefault /\ modified THEN "updating" ELSE "writing"]]
  /\ UNCHANGED <<backend, proc, lim, dash>>

\* updateMany({ userId, _id: { $ne: this._id } }, { isDefault: false })
\* is applied and answers; the hook calls next().
UpdateManyDone(f) ==
  /\ fav[f].pc = "updating"
  /\ fav' = [g \in Favs |->
               IF g = f THEN [fav[g] EXCEPT !.pc = "writing"]
               ELSE IF UserOf(g) = UserOf(f) THEN [fav[g] EXCEPT !.storedDefault = FALSE]
               ELSE fav[g]]
  /\ UNCHANGED <<backend, proc, lim, dash>>

\* The document is written: inserted whole when new, its modified paths
\* otherwise.
WriteDone(f) ==
  /\ fav[f].pc = "writing"
  /\ fav' = [fav EXCEPT ![f] =
               [@ EXCEPT !.pc = "saved",
                         !.stored = TRUE,
                         !.storedDefault = IF ~fav[f].stored \/ fav[f].modified
                                             THEN fav[f].isDefault
                                             ELSE @,
                         !.modified = FALSE]]
  /\ UNCHANGED <<backend, proc, lim, dash>>

NextFav ==
  \/ \E f \in Favs, isDefault \in BOOLEAN : Save(f, isDefault)
  \/ \E f \in Favs : UpdateManyDone(f)
  \/ \E f \in Favs : WriteDone(f)

SpecFav == Init /\ [][NextFav]_vars

Saving == {f \in Favs : fav[f].pc \in {"updating", "writing"}}

Defaults(u) == {f \in Favs : UserOf(f) = u /\ fav[f].stored /\ fav[f].storedDefault}

\* C24: whenever no save is under way, the collection holds at most one
\* favorite with isDefault = true for each user.
C24_OneDefaultPerUser ==
  Saving = {} => \A f \in Favs : Cardinality(Defaults(UserOf(f))) <= 1


(***************************************************************************)
(* server.ts: gracefulShutdown.                                            *)
(***************************************************************************)
\* await mongoose.connect(mongoURI) resolves.
MongoConnected ==
  /\ proc.status = Running
  /\ proc.mongo = "connecting"
  /\ proc' = [proc EXCEPT !.mongo = "open"]
  /\ UNCHANGED <<backend, fav, lim, dash>>

\* await mongoose.connect(mongoURI) rejects: process.exit(1).
MongoConnectFails ==
  /\ proc.status = Running
  /\ proc.mongo = "connecting"
  /\ proc' = [proc EXCEPT !.status = Exited(1)]
  /\ UNCHANGED <<backend, fav, lim, dash>>

\* A client connects while the server listens and sends a request.
Accept(c) ==
  /\ proc.status = Running
  /\ proc.http = "listening"
  /\ proc.conn[c] = "none"
  /\ proc' = [proc EXCEPT !.conn[c] = "active"]
  /\ UNCHANGED <<backend, fav, lim, dash>>

\* The request of a connection is answered; the connection is kept alive.
RequestDone(c) ==
  /\ proc.status = Running
  /\ proc.conn[c] = "active"
  /\ proc' = [proc EXCEPT !.conn[c] = "idle"]
  /\ UNCHANGED <<backend, fav, lim, dash>>

\* A connection ends.
ConnectionEnds(c) ==
  /\ proc.status = Running
  /\ proc.conn[c] # "none"
  /\ proc' = [proc EXCEPT !.conn[c] = "none"]
  /\ UNCHANGED <<backend, fav, lim, dash>>

\* Variant: gracefulShutdown closes the MongoDB connection without waiting
\* for the callback of server.close.
Signal_NoWait(s) ==
  /\ proc.status = Running
  /\ proc.sig[s] = "none"
  /\ \A t \in Signals : t < s => proc.sig[t] # "none"
  /\ proc' = [proc EXCEPT !.sig[s] = "mongoClosing",
                          !.http = IF @ = "listening" THEN "closing" ELSE @,
                          !.mongo = IF @ \in {"open", "connecting"} THEN "closing" ELSE @]
  /\ UNCHANGED <<backend, fav, lim, dash>>

\* SIGTERM or SIGINT: gracefulShutdown calls server.close(callback); the
\* server stops accepting and the callback waits for its 'close' event.
Signal(s) ==
  /\ proc.status = Running
  /\ proc.sig[s] = "none"
  /\ \A t \in Signals : t < s => proc.sig[t] # "none"
  /\ proc' = [proc EXCEPT !.sig[s] = "httpClosing",
                          !.http = IF @ = "listening" THEN "closing" ELSE @]
  /\ UNCHANGED <<backend, fav, lim, dash>>

\* The server has no connection left and emits 'close': every waiting
\* callback of server.close runs and calls mongoose.connection.close(cb).
HttpCloseEvent ==
  /\ proc.status = Running
  /\ proc.http \in {"closing", "closed"}
  /\ \A c \in Conns : proc.conn[c] = "none"
  /\ \E s \in Signals : proc.sig[s] = "httpClosing"
  /\ proc' = [proc EXCEPT !.http = "closed",
                          !.mongo = IF @ \in {"open", "connecting"} THEN "closing" ELSE @,
                          !.sig = [s \in Signals |->
                                     IF @[s] = "httpClosing" THEN "mongoClosing" ELSE @[s]]]
  /\ UNCHANGED <<backend, fav, lim, dash>>

\* The same, on a build whose mongoose (7 and later) takes no callback:
\* close(cb) throws inside the 'close' listener and the process dies of the
\* uncaught exception.
HttpCloseEventThrows ==
  /\ proc.status = Running
  /\ proc.http \in {"closing", "closed"}
  /\ \A c \in Conns : proc.conn[c] = "none"
  /\ \E s \in Signals : proc.sig[s] = "httpClosing"
  /\ proc' = [proc EXCEPT !.http = "closed", !.status = Exited(1)]
  /\ UNCHANGED <<backend, fav, lim, dash>>

\* The MongoDB connection is closed: the first waiting callback runs
\* process.exit(0).
MongoClosed ==
  /\ proc.status = Running
  /\ proc.mongo \in {"closing", "closed"}
  /\ \E s \in Signals : proc.sig[s] = "mongoClosing"
  /\ LET first == CHOOSE s \in Signals :
                    /\ proc.sig[s] = "mongoClosing"
                    /\ \A t \in Signals : proc.sig[t] = "mongoClosing" => s <= t
     IN  proc' = [proc EXCEPT !.mongo = "closed", !.sig[first] = "exit",
                              !.status = Exited(0)]
  /\ UNCHANGED <<backend, fav, lim, dash>>

NextProc ==
  \/ MongoConnected
  \/ MongoConnectFails
  \/ \E c \in Conns : Accept(c)
  \/ \E c \in Conns : RequestDone(c)
  \/ \E c \in Conns : ConnectionEnds(c)
  \/ \E s \in Signals : Signal(s)
  \/ HttpCloseEvent
  \/ HttpCloseEventThrows
  \/ MongoClosed

SpecProc == Init /\ [][NextProc]_vars

\* The steps of one gracefulShutdown call, in their order.
ShutdownSteps ==
  {<<"none", "httpClosing">>, <<"httpClosing", "mongoClosing">>, <<"mongoClosing", "exit">>}

\* C25: the gracefulShutdown call of each signal moves through its steps in
\* order, one at a time and never back: server.close, then after the HTTP
\* server has closed mongoose.connection.close, then after the MongoDB
\* connection has closed process.exit(0); the process has exit code 0 only
\* with both closed, and a closed server or connection stays closed.
C25_ShutdownInOrder ==
  [][/\ \A s \in Signals :
          /\ proc'.sig[s] # proc.sig[s] => <<proc.sig[s], proc'.sig[s]>> \in ShutdownSteps
          /\ proc'.sig[s] \in {"mongoClosing", "exit"} => proc'.http = "closed"
          /\ proc'.sig[s] = "exit" => proc'.mongo = "closed" /\ proc'.status = Exited(0)
     /\ proc'.status = Exited(0) => proc'.http = "closed" /\ proc'.mongo = "closed"
     /\ proc'.mongo \in {"closing", "closed"} => proc'.http = "closed"
     /\ proc'.http = "closed" /\ proc.http # "closed" => \A c \in Conns : proc.conn[c] = "none"
     /\ proc.http # "listening" => proc'.http # "listening"
     /\ proc.http = "closed" => proc'.http = "closed"
     /\ proc.mongo = "closed" => proc'.mongo = "closed"
     /\ proc.status # Running => proc' = proc
    ]_vars

\* <<"2">> signals were delivered before the HTTP server had closed; the
\* process has exited with code 0 from the callbacks of the first.
C25_Witness ==
  /\ proc.status = Exited(0)
  /\ proc.sig[1] = "exit"
  /\ proc.sig[2] = "mongoClosing"
  /\ proc.http = "closed"
  /\ proc.mongo = "closed"


(***************************************************************************)
(* server.ts: app.use('/api/', limiter) and app.get('/health').            *)
(***************************************************************************)
\* Variant: the limiter lets one request more than max through.
LimiterRejects_AtMax(totalHits) == totalHits > RATE_MAX + 1

\* express-rate-limit: the request is rejected with 429 when the hits of
\* its key, itself included, exceed max.
LimiterRejects(totalHits) == totalHits > RATE_MAX

\* A request to a path under /api/: the limiter counts it, then passes it
\* on to the routers or answers 429 itself.
ApiRequest(ip) ==
  /\ lim.hits[ip] < RATE_MAX + MaxOver
  /\ LET totalHits == lim.hits[ip] + 1
     IN  lim' = [lim EXCEPT
                   !.hits[ip] = totalHits,
                   !.handled[ip] = IF LimiterRejects(totalHits) THEN @ ELSE @ + 1,
                   !.last = [ip |-> ip, path |-> "api",
                             status |-> IF LimiterRejects(totalHits) THEN 429 ELSE 200]]
  /\ UNCHANGED <<backend, fav, proc, dash>>

\* GET /health: the route is not under /api/ and the limiter does not see it.
HealthRequest(ip) ==
  /\ lim' = [lim EXCEPT !.last = [ip |-> ip, path |-> "health", status |-> 200]]
  /\ UNCHANGED <<backend, fav, proc, dash>>

\* A minute of the window passes; at windowMs the store resets its counters.
Minute ==
  /\ lim' = IF lim.age + 1 = WINDOW_MINUTES
              THEN [lim EXCEPT !.age = 0, !.hits = [ip \in IPs |-> 0],
                               !.handled = [ip \in IPs |-> 0]]
              ELSE [lim EXCEPT !.age = @ + 1]
  /\ UNCHANGED <<backend, fav, proc, dash>>

NextLim ==
  \/ \E ip \in IPs : ApiRequest(ip)
  \/ \E ip \in IPs : HealthRequest(ip)
  \/ Minute

SpecLim == Init /\ [][NextLim]_vars


\* C26: in every window the limiter passes at most RATE_MAX requests of each
\* IP on to the routers of /api/: a request of an IP that has RATE_MAX
\* passed requests in the window is answered 429 by the limiter and reaches
\* no handler, cache or upstream call, an earlier one is passed on; a
\* request to /health changes no counter and is answered 200.
C26_AtMostMaxPerWindow ==
  [][/\ \A ip \in IPs : lim'.handled[ip] <= RATE_MAX
     /\ \A ip \in IPs :
          (lim'.age = lim.age /\ lim'.hits[ip] # lim.hits[ip]) =>
             /\ lim'.last.ip = ip /\ lim'.last.path = "api"
             /\ lim'.hits[ip] = lim.hits[ip] + 1
             /\ IF lim.handled[ip] >= RATE_MAX
                  THEN /\ lim'.last.status = 429
                       /\ lim'.handled = lim.handled
                       /\ UNCHANGED backend
                  ELSE /\ lim'.last.status = 200
                       /\ lim'.handled[ip] = lim.handled[ip] + 1
     /\ (lim'.age = lim.age /\ lim'.last.path = "health") =>
          /\ lim'.hits = lim.hits
          /\ lim'.handled = lim.handled
          /\ lim'.last.status = 200
     /\ lim'.last.status = 429 => lim'.last.path = "api"
    ]_vars

\* An IP has sent two requests more than the limit in a window that has run
\* for some minutes, while the other IP is still being served.
C26_Witness ==
  /\ lim.hits["a"] = RATE_MAX + 2
  /\ lim.handled["a"] = RATE_MAX
  /\ lim.last = [ip |-> "a", path |-> "api", status |-> 429]
  /\ lim.age > 0
  /\ lim.handled["b"] = 1


(***************************************************************************)
(* pages/Dashboard.tsx: loadWeatherData, handleRefresh, the effect.        *)
(***************************************************************************)
Karachi == <<"K">>

\* A JavaScript number or undefined as the condition of an if.
TruthyNumber(x) == x.given /\ x.v # 0

\* if (lat && lon) ... else if (city) ... else throw new Error(...)
BranchOf(args) ==
  IF TruthyNumber(args.lat) /\ TruthyNumber(args.lon) THEN "coords"
  ELSE IF args.city # Undefined THEN "city"
  ELSE "throw"

\* The next loadWeatherData call.
NextLoad == CHOOSE l \in Loads : dash.load[l].pc = "none" /\ \A k \in Loads : k < l => dash.load[k].pc # "none"

CanLoad == \E l \in Loads : dash.load[l].pc = "none"

\* The arguments handleRefresh and the effect pass for a hook state.
ArgsFor(geo) ==
  IF geo.location # Null
    THEN [lat |-> Given(geo.location.lat), lon |-> Given(geo.location.lon),
          city |-> Undefined]
    ELSE [lat |-> NotGiven, lon |-> NotGiven, city |-> Karachi]

\* loadWeatherData up to its await: setLoading(true), then the two fetches
\* are started, or the Error is thrown, caught and setLoading(false) runs.
StartLoad(d, args, by) ==
  LET l == NextLoad
      branch == BranchOf(args)
  IN  [d EXCEPT !.load[l] = [pc |-> IF branch = "throw" THEN "failed" ELSE "pending",
                             args |-> args, branch |-> branch, by |-> by],
                !.loading = branch # "throw",
                !.refreshing = IF by = "refresh" THEN branch # "throw" ELSE @]

\* useGeolocation returns something new: the component renders again and
\* the effect runs.
GeoChanges(geo) ==
  /\ geo # dash.geo
  /\ CanLoad
  /\ dash' = StartLoad([dash EXCEPT !.geo = geo], ArgsFor(geo), "effect")
  /\ UNCHANGED <<backend, fav, proc, lim>>

\* The Refresh button is on the page when loading is false and enabled when
\* refreshing is false.
Refresh ==
  /\ ~dash.loading
  /\ ~dash.refreshing
  /\ CanLoad
  /\ dash' = StartLoad(dash, ArgsFor(dash.geo), "refresh")
  /\ UNCHANGED <<backend, fav, proc, lim>>

\* Variant: each fetch is awaited by itself and its setter runs when it is
\* fulfilled.
LoadSettles_Partial(l, weatherOk, forecastOk) ==
  /\ dash.load[l].pc = "pending"
  /\ dash' = [dash EXCEPT
                !.load[l].pc = IF weatherOk /\ forecastOk THEN "done" ELSE "failed",
                !.currentWeather = IF weatherOk THEN l ELSE @,
                !.forecast = IF forecastOk THEN l ELSE @,
                !.loading = FALSE,
                !.refreshing = IF dash.load[l].by = "refresh" THEN FALSE ELSE @]
  /\ UNCHANGED <<backend, fav, proc, lim>>

\* Promise.all of load l settles: with both fetches fulfilled the two
\* setters run, otherwise the catch block; then finally, and for a load of
\* handleRefresh setRefreshing(false).
LoadSettles(l, weatherOk, forecastOk) ==
  /\ dash.load[l].pc = "pending"
  /\ dash' = [dash EXCEPT
                !.load[l].pc = IF weatherOk /\ forecastOk THEN "done" ELSE "failed",
                !.currentWeather = IF weatherOk /\ forecastOk THEN l ELSE @,
                !.forecast = IF weatherOk /\ forecastOk THEN l ELSE @,
                !.loading = FALSE,
                !.refreshing = IF dash.load[l].by = "refresh" THEN FALSE ELSE @]
  /\ UNCHANGED <<backend, fav, proc, lim>>

NextDash ==
  \/ \E geo \in GeoStates : GeoChanges(geo)
  \/ Refresh
  \/ \E l \in Loads, weatherOk \in BOOLEAN, forecastOk \in BOOLEAN :
       LoadSettles(l, weatherOk, forecastOk)

SpecDash == Init /\ [][NextDash]_vars

\* C27: a loadWeatherData call that was given a latitude and a longitude has
\* taken the branch of the calls by coordinates.
C27_CoordsLoadByCoords ==
  \A l \in Loads :
    (dash.load[l].pc # "none"
       /\ dash.load[l].args.lat.given /\ dash.load[l].args.lon.given) =>
      dash.load[l].branch = "coords"


Pending == {l \in Loads : dash.load[l].pc = "pending"}

Called == {l \in Loads : dash.load[l].pc # "none"}

\* The load that was started last.
LastCalled == CHOOSE l \in Called : \A k \in Called : k <= l

\* C28: when no load is pending and the load that was started last has
\* succeeded, currentWeather and forecast are those of that load.
C28_LastStartedLoadShown ==
  (Called # {} /\ Pending = {} /\ dash.load[LastCalled].pc = "done") =>
    /\ dash.currentWeather = LastCalled
    /\ dash.forecast = LastCalled


\* C29: while a load is pending loading is true, once loads have been made
\* and none is pending loading is false, and refreshing is true exactly
\* while a load of handleRefresh is pending.
C29_LoadingWhileInFlight ==
  /\ Pending # {} => dash.loading
  /\ (Called # {} /\ Pending = {}) => ~dash.loading
  /\ dash.refreshing <=> (\E l \in Pending : dash.load[l].by = "refresh")


\* C30: currentWeather and forecast change only in the step in which a load
\* succeeds, both to the data of that load; the step in which a load fails
\* leaves both as they were, so the two are always those of one load.
C30_BothOrNeither ==
  [][/\ dash'.currentWeather = dash'.forecast
     /\ \A l \in Loads :
          /\ (dash.load[l].pc # "failed" /\ dash'.load[l].pc = "failed") =>
                /\ dash'.currentWeather = dash.currentWeather
                /\ dash'.forecast = dash.forecast
          /\ (dash.load[l].pc = "pending" /\ dash'.load[l].pc = "done") =>
                /\ dash'.currentWeather = l
                /\ dash'.forecast = l
     /\ (dash'.currentWeather # dash.currentWeather \/ dash'.forecast # dash.forecast) =>
          \E l \in Loads : dash.load[l].pc = "pending" /\ dash'.load[l].pc = "done"
    ]_vars

\* A load has succeeded and a later load, whose fetches were started, has
\* failed: the page shows the data of the first.
C30_Witness ==
  \E l, k \in Loads :
    /\ l < k
    /\ dash.load[l].pc = "done"
    /\ dash.load[k].pc = "failed"
    /\ dash.load[k].branch \in {"coords", "city"}
    /\ dash.currentWeather = l
    /\ dash.forecast = l

====
